---- MODULE Spec2Model ----
(***************************************************************************)
(* Model of wiki-utils: the layered link calculator (src/src/links.rs)     *)
(* and the retrying fetch client (src/src/client.rs).                      *)
(*                                                                         *)
(* Two specifications share the module:                                    *)
(*   Spec        the LinkCalculator: constructors, compute_layers_async,   *)
(*               compute_next_async, the spawned store_article_links units *)
(*               and the join/normalize/push step.  A unit's call to       *)
(*               AsyncClient::get_article is one step whose outcome is     *)
(*               Ok(article) or Err(ClientError).                          *)
(*   ClientSpec  AsyncClient::get_request run by several workers sharing   *)
(*               one client (the paused flag) and the static               *)
(*               CONNECTION_PERMITS semaphore.                             *)
(*                                                                         *)
(* The remote site is the environment.  It is a fixed link/redirect graph  *)
(* that the model discovers lazily: the first fetch of an endpoint fixes   *)
(* the canonical endpoint it is served as, the first fetch of a canonical  *)
(* page fixes its document.  The served endpoint is the final URL after    *)
(* the HTTP client followed every redirect, so fetching a served endpoint  *)
(* serves that same endpoint (the redirect map is idempotent).  Transient  *)
(* failures (status and transport errors) are chosen per request.          *)
(***************************************************************************)
EXTENDS Integers, Sequences, FiniteSets, TLC

\* ---------------------------------------------------------------- bounds
MaxLinks == 2
MaxCount == 2
MaxRounds == 3
\* the per-round cap on concurrently fetching units that spec 4.2 step 3
\* names (32 there), scaled to the layer sizes of the model; the code has
\* no such constant
FanOutCap == 1
NumWorkers == 2
\* capacity of the permit pool; the program's value is 100 (client.rs:21),
\* scaled down so that there are more workers than permits
CONNECTION_PERMITS == 1

\* longest endpoint string given to the decoder and the renderer
MaxLen == 5

\* ------------------------------------------------------ program constants
MAX_RETRIES == 5
HEX_CHARS_PER_BYTE == 2

\* the endpoints (article names) of the remote site
Endpoints == {"A", "B", "C"}

VARIABLES
    layers,               \* LinkCalculator.layers: sequence of sets of endpoints
    known_redirects,      \* LinkCalculator.known_redirects: partial map endpoint -> endpoint
    call,                 \* the compute_layers_async call in progress (or the last one)
    round,                \* position of compute_next_async: "idle" | "running"
    units,                \* the spawned store_article_links tasks, keyed by their link
    this_layer,           \* the target layer of the round in progress
    rounds_started,       \* number of rounds started on this calculator
    served,               \* remote: endpoint -> canonical endpoint, as discovered
    docs,                 \* remote: canonical endpoint -> document, as discovered
    round_start_layers,   \* history: layers when the round in progress started
    round_start_redirects,\* history: known_redirects when the round in progress started
    workers,              \* get_request: per worker, its position and locals
    paused,               \* AsyncClient.paused
    permits,              \* CONNECTION_PERMITS: permits available
    origin,               \* history: the endpoint the calculator was constructed with
    url,                  \* decode_url_str: its argument
    decoder,              \* decode_url_str: the Decoder and the position in url
    fmt                   \* Display::fmt of a LinkCalculator: position and lines written

calcVars == <<layers, known_redirects, call, round, units, this_layer, rounds_started,
              served, docs, round_start_layers, round_start_redirects, origin>>

clientVars == <<workers, paused, permits>>

codecVars == <<url, decoder, fmt>>

vars == <<calcVars, clientVars, codecVars>>

\* ------------------------------------------------------------ the remote
\* A document either parses (ok) into a set of outbound article links, or
\* lacks the content container (create_article_link_set returns Err).
Documents ==
    {[ok |-> TRUE, links |-> s] : s \in {t \in SUBSET Endpoints : Cardinality(t) <= MaxLinks}}
        \cup {[ok |-> FALSE, links |-> {}]}

\* The canonical endpoints the remote may serve e as, given what is known.
ServedChoices(e) ==
    IF e \in DOMAIN served THEN {served[e]}
    ELSE {t \in Endpoints : t = e \/ t \notin DOMAIN served \/ served[t] = t}

DocChoices(t) == IF t \in DOMAIN docs THEN {docs[t]} ELSE Documents

Learn(f, k, v) == [x \in DOMAIN f \cup {k} |-> IF x = k THEN v ELSE f[x]]

\* ------------------------------------------------------- LinkCalculator
EmptyMap == [x \in {} |-> 0]

layer_zero(start_point) == {start_point}

AllMembers(ls) == UNION {ls[i] : i \in 1..Len(ls)}

IdleCall == [status |-> "none", k |-> 0, n |-> 0, started |-> 0, succeeded |-> 0]

\* LinkCalculator::new(start_point)
InitNew ==
    /\ origin \in Endpoints
    /\ layers = <<layer_zero(origin)>>
    /\ served = EmptyMap
    /\ docs = EmptyMap

\* LinkCalculator::from_article(first_article): the article was fetched
\* before, so the remote's answer for its endpoint is known.
InitFromArticle ==
    \E d \in Documents :
        /\ origin \in Endpoints
        /\ d.ok
        /\ layers = <<layer_zero(origin), d.links>>
        /\ served = Learn(EmptyMap, origin, origin)
        /\ docs = Learn(EmptyMap, origin, d)

CalcInit ==
    /\ (InitNew \/ InitFromArticle)
    /\ known_redirects = EmptyMap
    /\ call = IdleCall
    /\ round = "idle"
    /\ units = EmptyMap
    /\ this_layer = {}
    /\ rounds_started = 0
    /\ round_start_layers = layers
    /\ round_start_redirects = EmptyMap


\* get_last_layer
get_last_layer(ls) == ls[Len(ls)]

\* mutant: the two arguments of the insert swapped
InsertRedirect_Swapped(redirects, link, target) == Learn(redirects, target, link)

\* flurry HashMap::insert(link, target): adds the entry, or replaces the
\* value of an existing key.
InsertRedirect(redirects, link, target) == Learn(redirects, link, target)

\* find_in_previous_layer(...).is_some(): the endpoint is looked up in the
\* redirect table and only the resulting real_endpoint is searched for in
\* the committed layers.
find_in_previous_layer(previous_layers, redirects, endpoint) ==
    LET real_endpoint == IF endpoint \in DOMAIN redirects THEN redirects[endpoint]
                         ELSE endpoint
    IN  \E layer_num \in 1..Len(previous_layers) : real_endpoint \in previous_layers[layer_num]

\* mutant: the target is inserted but the link is not removed
RECURSIVE normalize_layer_NoRemove(_, _)
normalize_layer_NoRemove(last_layer, new_redirects) ==
    IF new_redirects = <<>> THEN last_layer
    ELSE normalize_layer_NoRemove(last_layer \cup {Head(new_redirects)[2]}, Tail(new_redirects))

\* normalize_layer(last_layer, new_redirects): for each pair in order,
\* remove the link and insert the target.
RECURSIVE normalize_layer(_, _)
normalize_layer(last_layer, new_redirects) ==
    IF new_redirects = <<>> THEN last_layer
    ELSE normalize_layer((last_layer \ {Head(new_redirects)[1]}) \cup {Head(new_redirects)[2]},
                         Tail(new_redirects))

\* The orders in which a set can be iterated (HashSet iteration order).
Orders(S) == {s \in [1..Cardinality(S) -> S] : \A i, j \in 1..Cardinality(S) : s[i] = s[j] => i = j}

\* new_redirects.extend(thread_new_redirects) over the results in handle order
RECURSIVE collect_redirects(_, _)
collect_redirects(order, us) ==
    IF order = <<>> THEN <<>>
    ELSE us[Head(order)].redirect \o collect_redirects(Tail(order), us)

\* The result loop of compute_next_async: any Err among the results returns it
RoundFailed(us) == \E e \in DOMAIN us : us[e].pc = "err"

\* mutant: the processed layer is normalized with the redirects of the
\* units that succeeded before the error is returned
LayersAfterRound_NormalizeFirst(ls, us, order, new_layer) ==
    LET normalized == [ls EXCEPT ![Len(ls)] =
                          normalize_layer(get_last_layer(ls), collect_redirects(order, us))]
    IN  IF RoundFailed(us) THEN normalized ELSE Append(normalized, new_layer)

\* mutant: the new layer is pushed whether or not a unit failed
LayersAfterRound_PushAlways(ls, us, order, new_layer) ==
    IF RoundFailed(us) THEN Append(ls, new_layer)
    ELSE Append([ls EXCEPT ![Len(ls)] = normalize_layer(get_last_layer(ls), collect_redirects(order, us))],
                new_layer)

\* compute_next_async after join_all: on an error return before touching
\* the layers; otherwise normalize the processed layer and push the new one.
LayersAfterRound(ls, us, order, new_layer) ==
    IF RoundFailed(us) THEN ls
    ELSE Append([ls EXCEPT ![Len(ls)] = normalize_layer(get_last_layer(ls), collect_redirects(order, us))],
                new_layer)

\* compute_layers_async(count): the call starts
CallComputeLayers ==
    /\ call.status # "running"
    /\ round # "running"
    /\ \E n \in 0..MaxCount :
        /\ rounds_started + n <= MaxRounds
        /\ call' = [status |-> "running", k |-> Len(layers), n |-> n, started |-> 0, succeeded |-> 0]
    /\ UNCHANGED <<layers, known_redirects, round, units, this_layer, rounds_started,
                   served, docs, round_start_layers, round_start_redirects>>
    /\ UNCHANGED <<origin, clientVars, codecVars>>

\* compute_layers_async: the loop is over, Ok(())
CallReturnOk ==
    /\ call.status = "running"
    /\ round # "running"
    /\ call.started = call.n
    /\ call' = [call EXCEPT !.status = "ok"]
    /\ UNCHANGED <<layers, known_redirects, round, units, this_layer, rounds_started,
                   served, docs, round_start_layers, round_start_redirects>>
    /\ UNCHANGED <<origin, clientVars, codecVars>>

\* compute_next_async up to join_all: one task spawned per member of the last layer
RoundStart ==
    /\ call.status = "running"
    /\ round # "running"
    /\ call.started < call.n
    /\ call' = [call EXCEPT !.started = @ + 1]
    /\ round' = "running"
    /\ rounds_started' = rounds_started + 1
    /\ this_layer' = {}
    /\ units' = [link \in get_last_layer(layers) |-> [pc |-> "fetch", redirect |-> <<>>, todo |-> {}]]
    /\ round_start_layers' = layers
    /\ round_start_redirects' = known_redirects
    /\ UNCHANGED <<layers, known_redirects, served, docs>>
    /\ UNCHANGED <<origin, clientVars, codecVars>>

\* store_article_links: client.get_article(&link) returned Err (the ? on line 140)
UnitFetchError(link) ==
    /\ round = "running"
    /\ link \in DOMAIN units
    /\ units[link].pc = "fetch"
    /\ units' = [units EXCEPT ![link].pc = "err"]
    /\ UNCHANGED <<layers, known_redirects, call, round, this_layer, rounds_started,
                   served, docs, round_start_layers, round_start_redirects>>
    /\ UNCHANGED <<origin, clientVars, codecVars>>

\* store_article_links: get_article returned the article served as `target`;
\* a redirect is inserted into known_redirects at once; then the links of
\* the document are extracted (or the extraction fails).
UnitFetch(link) ==
    /\ round = "running"
    /\ link \in DOMAIN units
    /\ units[link].pc = "fetch"
    /\ \E target \in ServedChoices(link) : \E d \in DocChoices(target) :
        /\ served' = Learn(Learn(served, link, target), target, target)
        /\ docs' = Learn(docs, target, d)
        /\ known_redirects' = IF link = target THEN known_redirects
                              ELSE InsertRedirect(known_redirects, link, target)
        /\ units' = [units EXCEPT ![link] =
                        IF d.ok
                        THEN [pc |-> "links",
                              redirect |-> IF link = target THEN <<>> ELSE << <<link, target>> >>,
                              todo |-> d.links]
                        ELSE [pc |-> "err", redirect |-> <<>>, todo |-> {}]]
    /\ UNCHANGED <<layers, call, round, this_layer, rounds_started,
                   round_start_layers, round_start_redirects>>
    /\ UNCHANGED <<origin, clientVars, codecVars>>

\* store_article_links: one iteration of the loop over neighbor_links
UnitLink(link) ==
    /\ round = "running"
    /\ link \in DOMAIN units
    /\ units[link].pc = "links"
    /\ \E neighbor_link \in units[link].todo :
        /\ this_layer' = IF find_in_previous_layer(layers, known_redirects, neighbor_link)
                         THEN this_layer
                         ELSE this_layer \cup {neighbor_link}
        /\ units' = [units EXCEPT ![link].todo = @ \ {neighbor_link}]
    /\ UNCHANGED <<layers, known_redirects, call, round, rounds_started,
                   served, docs, round_start_layers, round_start_redirects>>
    /\ UNCHANGED <<origin, clientVars, codecVars>>

\* store_article_links: Ok(new_redirect)
UnitReturn(link) ==
    /\ round = "running"
    /\ link \in DOMAIN units
    /\ units[link].pc = "links"
    /\ units[link].todo = {}
    /\ units' = [units EXCEPT ![link].pc = "ok"]
    /\ UNCHANGED <<layers, known_redirects, call, round, this_layer, rounds_started,
                   served, docs, round_start_layers, round_start_redirects>>
    /\ UNCHANGED <<origin, clientVars, codecVars>>

\* compute_next_async from join_all to its return
Join ==
    /\ round = "running"
    /\ \A link \in DOMAIN units : units[link].pc \in {"ok", "err"}
    /\ \E order \in Orders(DOMAIN units) :
        layers' = LayersAfterRound(layers, units, order, this_layer)
    /\ round' = IF RoundFailed(units) THEN "err" ELSE "ok"
    /\ call' = IF RoundFailed(units) THEN [call EXCEPT !.status = "err"]
               ELSE [call EXCEPT !.succeeded = @ + 1]
    /\ UNCHANGED <<known_redirects, units, this_layer, rounds_started,
                   served, docs, round_start_layers, round_start_redirects>>
    /\ UNCHANGED <<origin, clientVars, codecVars>>

CalcNext ==
    \/ CallComputeLayers
    \/ CallReturnOk
    \/ RoundStart
    \/ \E link \in Endpoints : UnitFetchError(link)
    \/ \E link \in Endpoints : UnitFetch(link)
    \/ \E link \in Endpoints : UnitLink(link)
    \/ \E link \in Endpoints : UnitReturn(link)
    \/ Join

\* ------------------------------------------------------------- the codec
\* no decoding and no rendering in progress
CodecIdle ==
    /\ url = <<>>
    /\ decoder = [state |-> "Reading", output_buffer |-> <<>>, parse_buffer |-> <<>>,
                  pos |-> 0, result |-> [kind |-> "idle", value |-> <<>>]]
    /\ fmt = [pc |-> "idle", layers |-> <<>>, redirects |-> <<>>, i |-> 0, j |-> 0, out |-> <<>>]

\* A char is its Unicode scalar value; a String is a sequence of chars.
PERCENT == 37
UNDERSCORE == 95
SPACE == 32
PLUS == 43

\* the chars endpoint strings are drawn from: % _ 3 8 C, e-acute (2 bytes
\* in UTF-8) and the euro sign (3 bytes)
Alphabet == {PERCENT, UNDERSCORE, 51, 56, 67, 233, 8364}

Strings == UNION {[1..n -> Alphabet] : n \in 0..MaxLen}

\* char::len_utf8
len_utf8(c) == IF c < 128 THEN 1 ELSE IF c < 2048 THEN 2 ELSE IF c < 65536 THEN 3 ELSE 4

\* String::len: the length in bytes
RECURSIVE byte_len(_)
byte_len(str) == IF str = <<>> THEN 0 ELSE len_utf8(Head(str)) + byte_len(Tail(str))

\* the value of a hexadecimal digit (char::to_digit(16)), -1 for any other char
hex_digit(c) ==
    IF c >= 48 /\ c <= 57 THEN c - 48
    ELSE IF c >= 65 /\ c <= 70 THEN c - 55
    ELSE IF c >= 97 /\ c <= 102 THEN c - 87
    ELSE -1

\* u8::from_str_radix(slice, 16) of a two-byte slice: two hex digits, or a
\* plus sign and one hex digit; -1 stands for Err(ParseIntError)
from_str_radix(slice) ==
    IF Len(slice) # 2 THEN -1
    ELSE IF slice[1] = PLUS THEN hex_digit(slice[2])
    ELSE IF hex_digit(slice[1]) < 0 \/ hex_digit(slice[2]) < 0 THEN -1
    ELSE 16 * hex_digit(slice[1]) + hex_digit(slice[2])

\* is b a UTF-8 continuation byte within [lo, hi]
Cont(bytes, k, lo, hi) == k <= Len(bytes) /\ bytes[k] >= lo /\ bytes[k] <= hi

\* String::from_utf8: the chars of a byte sequence; ok is FALSE for
\* Err(FromUtf8Error)
RECURSIVE from_utf8(_)
from_utf8(bytes) ==
    IF bytes = <<>> THEN [ok |-> TRUE, chars |-> <<>>]
    ELSE
    LET b == bytes[1]
        n == IF b < 128 THEN 1
             ELSE IF b >= 194 /\ b <= 223 /\ Cont(bytes, 2, 128, 191) THEN 2
             ELSE IF b >= 224 /\ b <= 239
                     /\ Cont(bytes, 2, IF b = 224 THEN 160 ELSE 128, IF b = 237 THEN 159 ELSE 191)
                     /\ Cont(bytes, 3, 128, 191) THEN 3
             ELSE IF b >= 240 /\ b <= 244
                     /\ Cont(bytes, 2, IF b = 240 THEN 144 ELSE 128, IF b = 244 THEN 143 ELSE 191)
                     /\ Cont(bytes, 3, 128, 191) /\ Cont(bytes, 4, 128, 191) THEN 4
             ELSE 0
        c == IF n = 1 THEN b
             ELSE IF n = 2 THEN (b - 192) * 64 + (bytes[2] - 128)
             ELSE IF n = 3 THEN (b - 224) * 4096 + (bytes[2] - 128) * 64 + (bytes[3] - 128)
             ELSE (b - 240) * 262144 + (bytes[2] - 128) * 4096 + (bytes[3] - 128) * 64
                  + (bytes[4] - 128)
    IN  IF n = 0 THEN [ok |-> FALSE, chars |-> <<>>]
        ELSE LET rest == from_utf8(SubSeq(bytes, n + 1, Len(bytes)))
             IN  [ok |-> rest.ok, chars |-> IF rest.ok THEN <<c>> \o rest.chars ELSE <<>>]

\* the loop of hex_string_to_unicode over &hex_code[i..i+2]: the bytes, or
\* the first failure.  A slice that does not end on a char boundary panics;
\* a slice that is no hexadecimal number is Err(HexNotValidByte).
RECURSIVE hex_bytes(_)
hex_bytes(hex_code) ==
    IF hex_code = <<>> THEN [kind |-> "Ok", value |-> <<>>]
    ELSE IF len_utf8(hex_code[1]) > HEX_CHARS_PER_BYTE THEN [kind |-> "Panic", value |-> <<>>]
    ELSE IF len_utf8(hex_code[1]) = HEX_CHARS_PER_BYTE THEN [kind |-> "HexNotValidByte", value |-> <<>>]
    ELSE IF Len(hex_code) < 2 \/ len_utf8(hex_code[2]) > 1 THEN [kind |-> "Panic", value |-> <<>>]
    ELSE IF from_str_radix(SubSeq(hex_code, 1, 2)) < 0 THEN [kind |-> "HexNotValidByte", value |-> <<>>]
    ELSE LET rest == hex_bytes(SubSeq(hex_code, 3, Len(hex_code)))
         IN  IF rest.kind # "Ok" THEN rest
             ELSE [kind |-> "Ok", value |-> <<from_str_radix(SubSeq(hex_code, 1, 2))>> \o rest.value]

\* Decoder::hex_string_to_unicode
hex_string_to_unicode(hex_code) ==
    IF byte_len(hex_code) % HEX_CHARS_PER_BYTE # 0 THEN [kind |-> "OddLengthHexString", value |-> <<>>]
    ELSE LET bytes == hex_bytes(hex_code)
         IN  IF bytes.kind # "Ok" THEN bytes
             ELSE IF from_utf8(bytes.value).ok
                  THEN [kind |-> "Ok", value |-> from_utf8(bytes.value).chars]
                  ELSE [kind |-> "ByteVecNotUtf8", value |-> <<>>]

\* Decoder::new
NewDecoder ==
    [state |-> "Reading", output_buffer |-> <<>>, parse_buffer |-> <<>>,
     pos |-> 0, result |-> [kind |-> "none", value |-> <<>>]]

\* mutant: the escape is taken as complete after every char pushed
process_char_ReadyAlways(d, c) ==
    LET next == [d EXCEPT !.pos = @ + 1]
    IN  IF d.state = "Reading"
        THEN IF c = PERCENT THEN [next EXCEPT !.state = "Parsing"]
             ELSE IF c = UNDERSCORE THEN [next EXCEPT !.output_buffer = Append(@, SPACE)]
             ELSE [next EXCEPT !.output_buffer = Append(@, c)]
        ELSE IF d.state = "Parsing"
        THEN [next EXCEPT !.parse_buffer = Append(d.parse_buffer, c), !.state = "ParseReady"]
        ELSE IF c = PERCENT THEN [next EXCEPT !.state = "Parsing"]
             ELSE LET parsed == hex_string_to_unicode(d.parse_buffer)
                  IN  IF parsed.kind # "Ok" THEN [d EXCEPT !.result = parsed]
                      ELSE [next EXCEPT !.output_buffer = Append(@ \o parsed.value, c),
                                        !.parse_buffer = <<>>,
                                        !.state = "Reading"]

\* mutant: an underscore is copied like any other char
process_char_KeepUnderscore(d, c) ==
    LET next == [d EXCEPT !.pos = @ + 1]
    IN  IF d.state = "Reading"
        THEN IF c = PERCENT THEN [next EXCEPT !.state = "Parsing"]
             ELSE [next EXCEPT !.output_buffer = Append(@, c)]
        ELSE IF d.state = "Parsing"
        THEN LET pushed == Append(d.parse_buffer, c)
             IN  [next EXCEPT !.parse_buffer = pushed,
                              !.state = IF byte_len(pushed) % 2 = 0 THEN "ParseReady" ELSE "Parsing"]
        ELSE IF c = PERCENT THEN [next EXCEPT !.state = "Parsing"]
             ELSE LET parsed == hex_string_to_unicode(d.parse_buffer)
                  IN  IF parsed.kind # "Ok" THEN [d EXCEPT !.result = parsed]
                      ELSE [next EXCEPT !.output_buffer = Append(@ \o parsed.value, c),
                                        !.parse_buffer = <<>>,
                                        !.state = "Reading"]

\* Decoder::process_char; an Err (or a panic) is kept in result and ends
\* the loop of decode_url_str
process_char(d, c) ==
    LET next == [d EXCEPT !.pos = @ + 1]
    IN  IF d.state = "Reading"
        THEN IF c = PERCENT THEN [next EXCEPT !.state = "Parsing"]
             ELSE IF c = UNDERSCORE THEN [next EXCEPT !.output_buffer = Append(@, SPACE)]
             ELSE [next EXCEPT !.output_buffer = Append(@, c)]
        ELSE IF d.state = "Parsing"
        THEN LET pushed == Append(d.parse_buffer, c)
             IN  [next EXCEPT !.parse_buffer = pushed,
                              !.state = IF byte_len(pushed) % 2 = 0 THEN "ParseReady" ELSE "Parsing"]
        ELSE IF c = PERCENT THEN [next EXCEPT !.state = "Parsing"]
             ELSE LET parsed == hex_string_to_unicode(d.parse_buffer)
                  IN  IF parsed.kind # "Ok" THEN [d EXCEPT !.result = parsed]
                      ELSE [next EXCEPT !.output_buffer = Append(@ \o parsed.value, c),
                                        !.parse_buffer = <<>>,
                                        !.state = "Reading"]

\* mutant: input that ends inside an escape returns what was decoded so far
finalize_ParsingOk(d) ==
    IF d.state \in {"Reading", "Parsing"} THEN [kind |-> "Ok", value |-> d.output_buffer]
    ELSE LET parsed == hex_string_to_unicode(d.parse_buffer)
         IN  IF parsed.kind # "Ok" THEN parsed
             ELSE [kind |-> "Ok", value |-> d.output_buffer \o parsed.value]

\* Decoder::finalize
finalize(d) ==
    IF d.state = "Reading" THEN [kind |-> "Ok", value |-> d.output_buffer]
    ELSE IF d.state = "Parsing" THEN [kind |-> "IncompleteParse", value |-> <<>>]
    ELSE LET parsed == hex_string_to_unicode(d.parse_buffer)
         IN  IF parsed.kind # "Ok" THEN parsed
             ELSE [kind |-> "Ok", value |-> d.output_buffer \o parsed.value]

\* decode_url_str as a function of its argument
RECURSIVE decode_from(_, _)
decode_from(d, str) ==
    IF d.result.kind # "none" THEN d.result
    ELSE IF d.pos = Len(str) THEN finalize(d)
    ELSE decode_from(process_char(d, str[d.pos + 1]), str)

decode_url_str(str) == decode_from(NewDecoder, str)

\* decode_url_str: one iteration of the loop over url.chars()
ProcessChar ==
    /\ decoder.result.kind = "none"
    /\ decoder.pos < Len(url)
    /\ decoder' = process_char(decoder, url[decoder.pos + 1])
    /\ UNCHANGED <<url, fmt>>
    /\ UNCHANGED <<calcVars, clientVars>>

\* decode_url_str: decoder.finalize()
Finalize ==
    /\ decoder.result.kind = "none"
    /\ decoder.pos = Len(url)
    /\ decoder' = [decoder EXCEPT !.result = finalize(decoder)]
    /\ UNCHANGED <<url, fmt>>
    /\ UNCHANGED <<calcVars, clientVars>>

DecoderNext == ProcessChar \/ Finalize

\* ------------------------------------------------- Display for LinkCalculator
\* a line written to the formatter
Line(kind, a, b, n) == [kind |-> kind, a |-> a, b |-> b, n |-> n]

\* the match on decode_url_str(endpoint) in fmt: the decoded text, or the
\* raw endpoint on a DecodeError
line_text(endpoint) ==
    IF decode_url_str(endpoint).kind = "Ok" THEN decode_url_str(endpoint).value ELSE endpoint

\* the line fmt writes for a known redirect
redirect_line(link, target) == Line("redirect", link, target, 0)

\* fmt: the article name, taken from layer zero
FmtName ==
    /\ fmt.pc = "name"
    /\ LET article_name == IF fmt.layers[1] = <<>> THEN <<>> ELSE fmt.layers[1][1]
           decoded == decode_url_str(article_name)
       IN  fmt' = IF decoded.kind = "Panic" THEN [fmt EXCEPT !.pc = "panicked"]
                  ELSE [fmt EXCEPT !.pc = "layer", !.i = 2, !.j = 0,
                                   !.out = Append(@, Line(IF decoded.kind = "Ok" THEN "Article Name"
                                                          ELSE "Endpoint Name (unparseable)",
                                                          line_text(article_name), <<>>, 0))]
    /\ UNCHANGED <<url, decoder>>
    /\ UNCHANGED <<calcVars, clientVars>>

\* fmt: the "i-Hop Neighbors (n):" line of the next layer
FmtLayerHeader ==
    /\ fmt.pc = "layer"
    /\ fmt.i <= Len(fmt.layers)
    /\ fmt.j = 0
    /\ fmt' = [fmt EXCEPT !.j = 1,
                          !.out = Append(@, Line("Hop Neighbors", <<>>, <<>>, Len(fmt.layers[fmt.i])))]
    /\ UNCHANGED <<url, decoder>>
    /\ UNCHANGED <<calcVars, clientVars>>

\* fmt: one member of the layer, decoded, or raw when decoding fails
FmtMember ==
    /\ fmt.pc = "layer"
    /\ fmt.i <= Len(fmt.layers)
    /\ fmt.j >= 1
    /\ fmt.j <= Len(fmt.layers[fmt.i])
    /\ LET endpoint == fmt.layers[fmt.i][fmt.j]
       IN  fmt' = IF decode_url_str(endpoint).kind = "Panic" THEN [fmt EXCEPT !.pc = "panicked"]
                  ELSE [fmt EXCEPT !.j = @ + 1,
                                   !.out = Append(@, Line("member", line_text(endpoint), <<>>, 0))]
    /\ UNCHANGED <<url, decoder>>
    /\ UNCHANGED <<calcVars, clientVars>>

\* fmt: the members of the layer are written, go on to the next layer
FmtLayerEnd ==
    /\ fmt.pc = "layer"
    /\ fmt.i <= Len(fmt.layers)
    /\ fmt.j > Len(fmt.layers[fmt.i])
    /\ fmt' = [fmt EXCEPT !.i = @ + 1, !.j = 0]
    /\ UNCHANGED <<url, decoder>>
    /\ UNCHANGED <<calcVars, clientVars>>

\* fmt: the "Known Redirects (r):" line
FmtRedirectHeader ==
    /\ fmt.pc = "layer"
    /\ fmt.i > Len(fmt.layers)
    /\ fmt' = [fmt EXCEPT !.pc = "redirects", !.j = 1,
                          !.out = Append(@, Line("Known Redirects", <<>>, <<>>, Len(fmt.redirects)))]
    /\ UNCHANGED <<url, decoder>>
    /\ UNCHANGED <<calcVars, clientVars>>

\* fmt: one known redirect
FmtRedirect ==
    /\ fmt.pc = "redirects"
    /\ fmt.j <= Len(fmt.redirects)
    /\ fmt' = [fmt EXCEPT !.j = @ + 1,
                          !.out = Append(@, redirect_line(fmt.redirects[fmt.j][1], fmt.redirects[fmt.j][2]))]
    /\ UNCHANGED <<url, decoder>>
    /\ UNCHANGED <<calcVars, clientVars>>

\* fmt: Ok(())
FmtReturn ==
    /\ fmt.pc = "redirects"
    /\ fmt.j > Len(fmt.redirects)
    /\ fmt' = [fmt EXCEPT !.pc = "done"]
    /\ UNCHANGED <<url, decoder>>
    /\ UNCHANGED <<calcVars, clientVars>>

FmtNext ==
    \/ FmtName
    \/ FmtLayerHeader
    \/ FmtMember
    \/ FmtLayerEnd
    \/ FmtRedirectHeader
    \/ FmtRedirect
    \/ FmtReturn

\* ----------------------------------------------------------- AsyncClient
Workers == 1..NumWorkers

\* get_request entered: retries = 0, last_try_result = Err(ClientError::Default)
WorkerStart ==
    [pc |-> "top", retries |-> 0, last_try_result |-> "Default", returned |-> "none",
     requests |-> 0, backoffs |-> 0, not_found |-> 0]

ClientInit ==
    /\ workers = [w \in Workers |-> WorkerStart]
    /\ paused = FALSE
    /\ permits = CONNECTION_PERMITS

\* what the remote (or the transport) answers to one request
Responses == {"Ok", "NotFound", "StatusCodeError", "RequestError"}

\* mutant: the loop exits one iteration late
RetriesExhausted_Late(retries) == retries = MAX_RETRIES + 1

\* the loop's exit test
RetriesExhausted(retries) == retries = MAX_RETRIES

\* mutant: the request is sent without waiting for a permit
CanAcquire_Always(available) == TRUE

\* Semaphore::acquire completes only when a permit is available
CanAcquire(available) == available > 0

\* the permit is dropped when the response (or the transport error) arrives
ReleasePermit(available, response) == available + 1

\* mutant: a 404 is retried like any other status error
BreaksLoop_OnlyOk(response) == response = "Ok"

\* the match on last_try_result: which errors break out of the loop
BreaksLoop(response) == response \in {"Ok", "NotFound"}

\* loop head: retries == MAX_RETRIES breaks and returns last_try_result
LoopExit(w) ==
    /\ workers[w].pc = "top"
    /\ RetriesExhausted(workers[w].retries)
    /\ workers' = [workers EXCEPT ![w].pc = "done", ![w].returned = workers[w].last_try_result]
    /\ UNCHANGED <<paused, permits>>
    /\ UNCHANGED <<calcVars, codecVars>>

\* loop head: retries += 1; paused.load() is true: note the error and sleep
LoopPaused(w) ==
    /\ workers[w].pc = "top"
    /\ ~RetriesExhausted(workers[w].retries)
    /\ paused
    /\ workers' = [workers EXCEPT ![w].pc = "paused_sleep", ![w].retries = @ + 1,
                                  ![w].last_try_result = "PausedOnOtherThread"]
    /\ UNCHANGED <<paused, permits>>
    /\ UNCHANGED <<calcVars, codecVars>>

\* loop head: retries += 1; paused.load() is false: go on to acquire a permit
LoopAttempt(w) ==
    /\ workers[w].pc = "top"
    /\ ~RetriesExhausted(workers[w].retries)
    /\ ~paused
    /\ workers' = [workers EXCEPT ![w].pc = "acquire", ![w].retries = @ + 1]
    /\ UNCHANGED <<paused, permits>>
    /\ UNCHANGED <<calcVars, codecVars>>

\* time::sleep(RETRY_INTERVAL) of the paused branch ends; continue
PausedSleepEnd(w) ==
    /\ workers[w].pc = "paused_sleep"
    /\ workers' = [workers EXCEPT ![w].pc = "top"]
    /\ UNCHANGED <<paused, permits>>
    /\ UNCHANGED <<calcVars, codecVars>>

\* CONNECTION_PERMITS.acquire() completes and the request is sent
AcquireAndSend(w) ==
    /\ workers[w].pc = "acquire"
    /\ CanAcquire(permits)
    /\ permits' = permits - 1
    /\ workers' = [workers EXCEPT ![w].pc = "sending", ![w].requests = @ + 1]
    /\ UNCHANGED paused
    /\ UNCHANGED <<calcVars, codecVars>>

\* send().await? failed: the transport error is returned at once by the ?
\* operator (the permit is dropped with the function's locals)
TransportError(w) ==
    /\ workers[w].pc = "sending"
    /\ permits' = ReleasePermit(permits, "RequestError")
    /\ workers' = [workers EXCEPT ![w].pc = "done", ![w].returned = "RequestError"]
    /\ UNCHANGED paused
    /\ UNCHANGED <<calcVars, codecVars>>

\* a response arrived: drop(permit), last_try_result = error_for_status(),
\* and the match: Ok and 404 break, any other status goes on to the backoff
Response(w) ==
    /\ workers[w].pc = "sending"
    /\ \E response \in Responses \ {"RequestError"} :
        /\ permits' = ReleasePermit(permits, response)
        /\ workers' = [workers EXCEPT
                ![w].last_try_result = response,
                ![w].not_found = IF response = "NotFound" THEN @ + 1 ELSE @,
                ![w].pc = IF BreaksLoop(response) THEN "done" ELSE "error",
                ![w].returned = IF BreaksLoop(response) THEN response ELSE @]
    /\ UNCHANGED paused
    /\ UNCHANGED <<calcVars, codecVars>>

\* self.paused.store(true)
StorePaused(w) ==
    /\ workers[w].pc = "error"
    /\ paused' = TRUE
    /\ workers' = [workers EXCEPT ![w].pc = "retry_sleep", ![w].backoffs = @ + 1]
    /\ UNCHANGED permits
    /\ UNCHANGED <<calcVars, codecVars>>

\* mutant: the flag is left as it is when the sleep ends
StoreAfterSleep_Keep(flag) == flag

\* the value of the flag after self.paused.store(false, Ordering::SeqCst)
StoreAfterSleep(flag) == FALSE

\* the sleep ends; self.paused.store(false); next iteration
Resume(w) ==
    /\ workers[w].pc = "retry_sleep"
    /\ paused' = StoreAfterSleep(paused)
    /\ workers' = [workers EXCEPT ![w].pc = "top"]
    /\ UNCHANGED permits
    /\ UNCHANGED <<calcVars, codecVars>>

ClientNext ==
    \E w \in Workers :
        \/ LoopExit(w)
        \/ LoopPaused(w)
        \/ LoopAttempt(w)
        \/ PausedSleepEnd(w)
        \/ AcquireAndSend(w)
        \/ TransportError(w)
        \/ Response(w)
        \/ StorePaused(w)
        \/ Resume(w)

\* -------------------------------------------------------- specifications
Init == CalcInit /\ ClientInit /\ CodecIdle

Next == CalcNext

Spec == Init /\ [][Next]_vars

\* the client alone: a calculator that is never asked to compute
ClientSpecInit ==
    /\ origin = "A"
    /\ layers = <<layer_zero(origin)>>
    /\ served = EmptyMap
    /\ docs = EmptyMap
    /\ known_redirects = EmptyMap
    /\ call = IdleCall
    /\ round = "idle"
    /\ units = EmptyMap
    /\ this_layer = {}
    /\ rounds_started = 0
    /\ round_start_layers = layers
    /\ round_start_redirects = EmptyMap
    /\ ClientInit
    /\ CodecIdle

ClientSpecNext == ClientNext

ClientSpec == ClientSpecInit /\ [][ClientSpecNext]_vars

\* the client under the scheduling the termination claim assumes: every
\* runnable worker is eventually polled, every sleep ends, every request in
\* flight gets a response or a transport error, and a waiter for a permit
\* gets one once permits stay available
ClientFairness ==
    \A w \in Workers :
        /\ WF_vars(LoopExit(w))
        /\ WF_vars(LoopPaused(w))
        /\ WF_vars(LoopAttempt(w))
        /\ WF_vars(PausedSleepEnd(w))
        /\ WF_vars(AcquireAndSend(w))
        /\ WF_vars(TransportError(w) \/ Response(w))
        /\ WF_vars(StorePaused(w))
        /\ WF_vars(Resume(w))

ClientLiveSpec == ClientSpecInit /\ [][ClientSpecNext]_vars /\ ClientFairness

\* the calculator and the client at rest
CalcIdle ==
    /\ origin = "A"
    /\ layers = <<layer_zero(origin)>>
    /\ served = EmptyMap
    /\ docs = EmptyMap
    /\ known_redirects = EmptyMap
    /\ call = IdleCall
    /\ round = "idle"
    /\ units = EmptyMap
    /\ this_layer = {}
    /\ rounds_started = 0
    /\ round_start_layers = layers
    /\ round_start_redirects = EmptyMap

\* decode_url_str alone, called on any endpoint string
DecoderInit ==
    /\ CalcIdle
    /\ ClientInit
    /\ url \in Strings
    /\ decoder = NewDecoder
    /\ fmt = [pc |-> "idle", layers |-> <<>>, redirects |-> <<>>, i |-> 0, j |-> 0, out |-> <<>>]

DecoderSpec == DecoderInit /\ [][DecoderNext]_vars

\* the origins of the rendered calculators: "3_8" and "%3" (which does not decode)
RenderOrigins == {<<51, UNDERSCORE, 56>>, <<PERCENT, 51>>}

\* Display::fmt alone, on the calculator that new(url) leaves after one
\* round when url is served as the origin o and o links to url and to
\* itself: layers [{o}, {url, o}], known_redirects {url -> o}; the members
\* of layer one in either iteration order
RenderInit ==
    /\ CalcIdle
    /\ ClientInit
    /\ url \in Strings
    /\ decoder = [NewDecoder EXCEPT !.result = [kind |-> "idle", value |-> <<>>]]
    /\ \E o \in RenderOrigins : \E members \in {<<url, o>>, <<o, url>>} :
          fmt = [pc |-> "name", layers |-> << <<o>>, members >>,
                 redirects |-> << <<url, o>> >>, i |-> 0, j |-> 0, out |-> <<>>]

RenderSpec == RenderInit /\ [][FmtNext]_vars


\* ------------------------------------------------------------------ claims

\* C1: after any sequence of successful rounds from either constructor, no
\* endpoint is a member of two different layers.
LayerDisjointness ==
    round \in {"idle", "ok"} =>
        \A i, j \in 1..Len(layers) : i # j => layers[i] \cap layers[j] = {}

\* C2: a round with a failed unit returns an error and leaves the number of
\* layers and the membership of every committed layer as at round start.
FailFastRound ==
    round = "err" => /\ layers = round_start_layers
                     /\ Len(layers) = Len(round_start_layers)

\* a failed round in which another unit succeeded, found a redirect and
\* the target layer had received members
FailFastRoundWitness ==
    /\ round = "err"
    /\ this_layer # {}
    /\ \E e \in DOMAIN units : units[e].pc = "ok" /\ units[e].redirect # <<>>

\* C3: compute_layers_async(n) on k layers ends with k+n layers on success,
\* with k+r-1 layers when round r is the first to fail (and runs no further
\* round); each successful round adds exactly one layer.
ComputeLayersCount ==
    call.status # "none" =>
        /\ Len(layers) = call.k + call.succeeded
        /\ call.status = "ok" => call.succeeded = call.n
        /\ call.status = "err" => /\ call.succeeded = call.started - 1
                                  /\ round = "err"

\* a call whose second round is the first to fail
ComputeLayersCountWitness ==
    /\ call.status = "err"
    /\ call.started = 2
    /\ call.n = 2

\* C4: the redirect table is not written while a round is running, and a
\* failed round leaves it as it was at round start.
RedirectTableFrozen ==
    round \in {"running", "err"} => known_redirects = round_start_redirects

RedirectNormalization ==
    round = "ok" =>
        LET idx == Len(round_start_layers)
            L == round_start_layers[idx]
        IN  /\ \A e \in L : served[e] # e =>
                    /\ e \in DOMAIN known_redirects
                    /\ known_redirects[e] = served[e]
                    /\ e \notin layers[idx]
                    /\ served[e] \in layers[idx]
            /\ \A e \in L : served[e] = e => e \in layers[idx]
            /\ layers[idx] \subseteq L \cup {served[e] : e \in L}
            /\ \A i \in 1..(idx - 1) : layers[i] = round_start_layers[i]

\* a successful round over a layer with a redirected and a non-redirected member
RedirectNormalizationWitness ==
    /\ round = "ok"
    /\ Len(round_start_layers) >= 2
    /\ \E e, m \in round_start_layers[Len(round_start_layers)] :
          served[e] # e /\ served[m] = m

\* C7: no outbound link is inserted into the new layer if the link itself,
\* or the target the table committed by earlier rounds maps it to, is a
\* member of a committed layer.
RedirectAwareExclusion ==
    round = "running" =>
        \A o \in this_layer :
            /\ o \notin AllMembers(layers)
            /\ o \in DOMAIN round_start_redirects =>
                   round_start_redirects[o] \notin AllMembers(layers)


\* C8: a fetch that received a 404 has received exactly one, has stopped
\* (no further request, no sleep), returns the not-found error, and has set
\* the backoff flag only for its earlier, retryable failures.
NotFoundTerminal ==
    \A w \in Workers :
        workers[w].not_found >= 1 =>
            /\ workers[w].not_found = 1
            /\ workers[w].pc = "done"
            /\ workers[w].returned = "NotFound"
            /\ workers[w].backoffs = workers[w].requests - 1

\* a worker got a 404 on its first request while another worker is in backoff
NotFoundTerminalWitness ==
    \E w, v \in Workers :
        /\ workers[w].not_found = 1
        /\ workers[w].requests = 1
        /\ workers[v].pc = "retry_sleep"

\* C9: a fetch whose every request received a retryable status error issues
\* exactly MAX_RETRIES requests and returns the last status error.
RetryCap ==
    \A w \in Workers :
        (/\ workers[w].pc = "done"
         /\ workers[w].requests >= 1
         /\ workers[w].backoffs = workers[w].requests) =>
            /\ workers[w].requests = MAX_RETRIES
            /\ workers[w].returned = "StatusCodeError"

\* C10: the workers holding a permit never outnumber the pool's capacity,
\* and every permit not held by a request in flight is back in the pool.
PermitHolders == {w \in Workers : workers[w].pc = "sending"}

AdmissionBound ==
    /\ Cardinality(PermitHolders) <= CONNECTION_PERMITS
    /\ permits = CONNECTION_PERMITS - Cardinality(PermitHolders)

\* the pool is exhausted while another worker waits for a permit
AdmissionBoundWitness ==
    /\ Cardinality(PermitHolders) = CONNECTION_PERMITS
    /\ \E w \in Workers : workers[w].pc = "acquire"


\* C11: layer 0 is exactly {origin}, the endpoint given at construction, at
\* construction and in every state reached by rounds afterwards.
LayerZeroIsOrigin == layers[1] = {origin}

\* C15: a transport error is retried: a fetch returns the transport error
\* only once MAX_RETRIES attempts have been made.
TransportErrorRetried ==
    \A w \in Workers :
        workers[w].returned = "RequestError" => workers[w].retries = MAX_RETRIES

\* C16: while any worker is inside its backoff sleep (between its
\* store(true) and its store(false)) the paused flag reads true.
BackoffCoversSleep ==
    (\E w \in Workers : workers[w].pc = "retry_sleep") => paused

\* C17: a successful round's new layer is the same for every interleaving:
\* it is the layer of the interleaving in which every unit has fetched (and
\* recorded its redirect) before any unit examines a link.
FetchFirstLayer ==
    {o \in UNION {docs[served[e]].links : e \in DOMAIN units} :
        ~find_in_previous_layer(round_start_layers, known_redirects, o)}

RoundDeterminism ==
    round = "ok" => layers[Len(layers)] = FetchFirstLayer

\* C18: after a successful round no key of the redirect table is a member
\* of any layer.
NoRedirectSourceInLayers ==
    round = "ok" => \A e \in DOMAIN known_redirects : e \notin AllMembers(layers)

\* C19: within a round, the units executing their fetch at the same time
\* never outnumber the fan-out cap.
FetchingUnits == {e \in DOMAIN units : units[e].pc = "fetch"}

FanOutBound ==
    round = "running" => Cardinality(FetchingUnits) <= FanOutCap


\* C12: on input without '%' the decoder never leaves Reading and succeeds
\* with the input in which every '_' is a space and every other char is
\* copied in order.
Spaced(str) == [k \in 1..Len(str) |-> IF str[k] = UNDERSCORE THEN SPACE ELSE str[k]]

NoPercent(str) == \A k \in 1..Len(str) : str[k] # PERCENT

EscapeFreeDecode ==
    NoPercent(url) =>
        /\ decoder.state = "Reading"
        /\ decoder.parse_buffer = <<>>
        /\ decoder.output_buffer = Spaced(SubSeq(url, 1, decoder.pos))
        /\ decoder.result.kind \in {"none", "Ok"}
        /\ decoder.result.kind = "Ok" => decoder.result.value = Spaced(url)

\* an escape-free input with an underscore and a multi-byte char was decoded
EscapeFreeDecodeWitness ==
    /\ NoPercent(url)
    /\ decoder.result.kind = "Ok"
    /\ Len(url) >= 3
    /\ \E k, l \in 1..Len(url) : url[k] = UNDERSCORE /\ len_utf8(url[l]) > 1

\* C13: IncompleteParse is returned exactly when the input ends in state
\* Parsing, which is after a '%' followed by nothing or by a hex run of odd
\* size; input that ends in ParseReady is flushed through the hex decode and
\* input that ends in Reading returns the output buffer.
IncompleteEscape ==
    LET ended == decoder.result.kind # "none" /\ decoder.pos = Len(url)
    IN  /\ decoder.result.kind = "IncompleteParse" <=> (ended /\ decoder.state = "Parsing")
        /\ decoder.state = "Parsing" =>
              \/ byte_len(decoder.parse_buffer) % 2 = 1
              \/ url[decoder.pos] = PERCENT
        /\ (ended /\ decoder.state = "ParseReady") =>
              /\ decoder.result.kind # "IncompleteParse"
              /\ decoder.result.kind = "Ok" =>
                    decoder.result.value =
                        decoder.output_buffer \o hex_string_to_unicode(decoder.parse_buffer).value
        /\ (ended /\ decoder.state = "Reading") =>
              decoder.result = [kind |-> "Ok", value |-> decoder.output_buffer]

\* the input ended inside an escape, after text had been decoded
IncompleteEscapeWitness ==
    /\ decoder.result.kind = "IncompleteParse"
    /\ decoder.output_buffer # <<>>
    /\ byte_len(decoder.parse_buffer) = 3

\* C14: decoding any endpoint string returns Ok or one of the four
\* DecodeError kinds, and rendering never aborts: on a decode error it
\* writes the raw endpoint for that line and goes on to the end.
RenderingNeverAborts ==
    /\ fmt.pc # "panicked"
    /\ fmt.pc = "done" =>
          /\ decode_url_str(url).kind \in {"Ok", "OddLengthHexString", "HexNotValidByte",
                                           "ByteVecNotUtf8", "IncompleteParse"}
          /\ \E k \in 1..Len(fmt.out) :
                fmt.out[k] = Line("member", line_text(url), <<>>, 0)
          /\ fmt.out[Len(fmt.out)].kind = "redirect"

\* C20: the redirect section has one line per table entry, with the source
\* and the target shown as layer members are shown (decoded).
RedirectSectionDecoded ==
    fmt.pc = "done" =>
        LET r == Len(fmt.redirects)
            first == Len(fmt.out) - r
        IN  /\ fmt.out[first].kind = "Known Redirects"
            /\ fmt.out[first].n = r
            /\ \A k \in 1..r :
                  /\ fmt.out[first + k].a = line_text(fmt.redirects[k][1])
                  /\ fmt.out[first + k].b = line_text(fmt.redirects[k][2])

\* C21: waiting on the backoff signal does not fail a fetch: a fetch that
\* returned an error has issued at least one request of its own.
WaitingNeverFails ==
    \A w \in Workers :
        (workers[w].pc = "done" /\ workers[w].returned # "Ok") => workers[w].requests >= 1

\* C22: every fetch makes at most MAX_RETRIES loop iterations (backoff waits
\* included) and, with every sleep ending and every request answered,
\* eventually returns; so all the fetches of a round eventually have returned.
FetchTerminates ==
    /\ [](\A w \in Workers : workers[w].retries <= MAX_RETRIES)
    /\ <>[](\A w \in Workers : workers[w].pc = "done" /\ workers[w].returned # "none")

\* all fetches have returned, one after MAX_RETRIES iterations of which some
\* were waits on the flag, another with a response
FetchTerminatesWitness ==
    /\ \A w \in Workers : workers[w].pc = "done"
    /\ \E w, v \in Workers :
          /\ workers[w].retries = MAX_RETRIES
          /\ workers[w].requests < MAX_RETRIES
          /\ workers[w].requests >= 1
          /\ workers[v].returned = "Ok"

\* C23: the paused flag is false whenever no worker is between its
\* store(true) and its store(false), in particular once every fetch has
\* returned.
FlagNeverStuck ==
    (\A w \in Workers : workers[w].pc # "retry_sleep") => ~paused

\* every fetch has returned, with a mix of results, after backoffs
FlagNeverStuckWitness ==
    /\ \A w \in Workers : workers[w].pc = "done"
    /\ \E w, v \in Workers :
          /\ workers[w].backoffs >= 1
          /\ workers[v].backoffs >= 1
          /\ workers[w].returned = "StatusCodeError"
          /\ workers[v].returned \in {"NotFound", "RequestError", "Ok"}

\* C24: in state Reading the parse buffer is empty, in state ParseReady it
\* is non-empty with an even length (in bytes, as String::len counts), and
\* no input is answered with OddLengthHexString.
DecoderBufferInvariant ==
    /\ decoder.state = "Reading" => decoder.parse_buffer = <<>>
    /\ decoder.state = "ParseReady" =>
          /\ decoder.parse_buffer # <<>>
          /\ byte_len(decoder.parse_buffer) % HEX_CHARS_PER_BYTE = 0
    /\ decoder.result.kind # "OddLengthHexString"
    /\ decode_url_str(url).kind # "OddLengthHexString"

\* a buffer of even byte length and odd char count went to the hex decode
DecoderBufferInvariantWitness ==
    /\ decoder.state = "ParseReady"
    /\ byte_len(decoder.parse_buffer) = 4
    /\ Len(decoder.parse_buffer) = 3
    /\ decoder.result.kind \notin {"none", "IncompleteParse"}

====
